---- MODULE Spec2Model ----
(***************************************************************************)
(* Model of the cw404 contract (contracts/cw404/src/execute.rs, state.rs): *)
(* a ledger that keeps one pool of value both as a fungible balance and as *)
(* whole tokens.  Every handler is a pure operator from the storage to a   *)
(* result, the storage it has written when it returns, and the messages of *)
(* its response; one action per ExecuteMsg variant applies the handler and *)
(* keeps its writes only when it returns Ok, as the host does.             *)
(***************************************************************************)
EXTENDS Integers, Sequences, FiniteSets, TLC

\* ------------------------------------------------------------------------
\* Bounds of the model
\* ------------------------------------------------------------------------

\* calls made after instantiate in one behaviour
MaxOps == 4

\* whole tokens ever minted in one behaviour
MaxMinted == 3

\* ------------------------------------------------------------------------
\* Inputs
\* ------------------------------------------------------------------------

\* the account addresses that pass addr_validate
Addr == {"c", "d", "e"}

\* env.contract.address
ContractAddr == "cw404"

\* info.sender of a call of a Generate..Event message
Senders == {"c", ContractAddr}

\* Uint128::MAX, the sentinel of an unlimited allowance (scaled to the
\* integers of the checker; larger than every other value of the model)
Uint128MAX == 2147483647

\* the InstantiateMsg of the main specification: 3 whole units of 10
InstantiateMsg == [total_native_supply |-> 3, decimals |-> 1]

\* the InstantiateMsg of Scenario A: supply 1000, decimals 0
InstantiateMsgA == [total_native_supply |-> 1000, decimals |-> 0]

\* a supply of two whole units, below the cap on the minted counter
InstantiateMsgB == [total_native_supply |-> 2, decimals |-> 1]

\* accounts that hold tokens, approve, lock and are spent from
Holders == {"d", "e"}

\* the account whose calls of the cw20/cw721 wrappers are explored
Wrappers == {"d"}

\* operator argument of ApproveAll and RevokeAll ("" fails addr_validate)
Operators == {"e", ""}

\* callers of SetWhitelist: the contract owner and another account
Admins == {"c", "d"}

\* amount / token_id / amount_or_id arguments of the transfer calls
Amounts == {0, 1, 2, 10, 20}

\* token_id argument of SetLock
LockIds == {1, 2}

\* amount_or_id argument of Approve
ApproveValues == {0, 1, 2, 1000000, Uint128MAX}

\* ------------------------------------------------------------------------
\* cw_storage_plus::Map as a function whose domain is the set of saved keys
\* ------------------------------------------------------------------------

EmptyMap == [k \in {} |-> 0]

MayLoad(m, k, default) == IF k \in DOMAIN m THEN m[k] ELSE default

Save(m, k, v) == [x \in (DOMAIN m) \cup {k} |-> IF x = k THEN v ELSE m[x]]

Remove(m, k) == [x \in (DOMAIN m) \ {k} |-> m[x]]

\* deps.api.addr_validate
addr_validate(a) == a \in Addr

\* Vec::pop on a non-empty vector
Pop(v) == SubSeq(v, 1, Len(v) - 1)

VARIABLES
    DECIMALS,          \* Item<u8>
    TOTAL_SUPPLY,      \* Item<Uint128>
    MINTED,            \* Item<Uint128>
    OWNER,             \* Item<String>, the contract owner
    WHITELIST,         \* Map<String, bool>
    GET_APPROVED,      \* Map<token id, String>
    ALLOWANCE,         \* Map<(String, String), Uint128>
    BALANCES,          \* Map<&Addr, Uint128>
    OWNER_OF,          \* Map<token id, String>
    OWNED,             \* Map<String, Vec<Uint128>>
    OWNED_INDEX,       \* Map<token id, Uint128>
    APPROVED_FOR_ALL,  \* Map<(String, String), bool>
    LOCKED,            \* Map<token id, bool>
    called,            \* the ExecuteMsg variant of the last call
    result,            \* outcome of the last call: "Ok", an error, "Panic"
    messages,          \* messages of the last Ok response
    ops                \* number of calls made

store == <<DECIMALS, TOTAL_SUPPLY, MINTED, OWNER, WHITELIST, GET_APPROVED,
           ALLOWANCE, BALANCES, OWNER_OF, OWNED, OWNED_INDEX,
           APPROVED_FOR_ALL, LOCKED>>

vars == <<DECIMALS, TOTAL_SUPPLY, MINTED, OWNER, WHITELIST, GET_APPROVED,
          ALLOWANCE, BALANCES, OWNER_OF, OWNED, OWNED_INDEX,
          APPROVED_FOR_ALL, LOCKED, called, result, messages, ops>>

\* deps.storage as one value
Storage ==
    [DECIMALS |-> DECIMALS, TOTAL_SUPPLY |-> TOTAL_SUPPLY, MINTED |-> MINTED,
     OWNER |-> OWNER, WHITELIST |-> WHITELIST, GET_APPROVED |-> GET_APPROVED,
     ALLOWANCE |-> ALLOWANCE, BALANCES |-> BALANCES, OWNER_OF |-> OWNER_OF,
     OWNED |-> OWNED, OWNED_INDEX |-> OWNED_INDEX,
     APPROVED_FOR_ALL |-> APPROVED_FOR_ALL, LOCKED |-> LOCKED]

\* ------------------------------------------------------------------------
\* Results of a handler: what it returns, the storage at that point, and the
\* messages of the Response
\* ------------------------------------------------------------------------

Ok(s, msgs) == [res |-> "Ok", st |-> s, msgs |-> msgs]

Err(e, s) == [res |-> e, st |-> s, msgs |-> <<>>]

\* a Rust panic: unwrap() of an Err or None, index out of bounds,
\* arithmetic overflow of a checked operator
Panic(s) == [res |-> "Panic", st |-> s, msgs |-> <<>>]

\* ------------------------------------------------------------------------
\* instantiate
\* ------------------------------------------------------------------------

instantiate(sender, msg) ==
    LET total_supply == msg.total_native_supply * (10 ^ msg.decimals)
    IN  [DECIMALS |-> msg.decimals,
         TOTAL_SUPPLY |-> total_supply,
         MINTED |-> 0,
         OWNER |-> sender,
         WHITELIST |-> EmptyMap,
         GET_APPROVED |-> EmptyMap,
         ALLOWANCE |-> EmptyMap,
         BALANCES |-> Save(EmptyMap, sender, total_supply),
         OWNER_OF |-> EmptyMap,
         OWNED |-> EmptyMap,
         OWNED_INDEX |-> EmptyMap,
         APPROVED_FOR_ALL |-> EmptyMap,
         LOCKED |-> EmptyMap]

get_unit(s) == 10 ^ s.DECIMALS

\* ------------------------------------------------------------------------
\* _mint and _burn
\* ------------------------------------------------------------------------

\* mutant of _mint: the advanced counter is not saved
_mint_keeps_counter(s, to) ==
    IF to = "" THEN Err("InvalidRecipient", s)
    ELSE
    LET id == s.MINTED + 1
        owner_of == MayLoad(s.OWNER_OF, id, "")
    IN  IF owner_of # "" THEN Err("AlreadyExists", s)
        ELSE
        LET owned == Append(MayLoad(s.OWNED, to, <<>>), id)
            s2 == [s EXCEPT !.OWNER_OF = Save(@, id, to),
                            !.OWNED = Save(@, to, owned),
                            !.OWNED_INDEX = Save(@, id, Len(owned) - 1)]
        IN  Ok(s2, << [kind |-> "GenerateNftMintEvent", sender |-> ContractAddr,
                       recipient |-> to, token_id |-> id] >>)

_mint(s, to) ==
    IF to = "" THEN Err("InvalidRecipient", s)
    ELSE
    LET id == s.MINTED + 1
        s1 == [s EXCEPT !.MINTED = id]
        owner_of == MayLoad(s1.OWNER_OF, id, "")
    IN  IF owner_of # "" THEN Err("AlreadyExists", s1)
        ELSE
        LET owned == Append(MayLoad(s1.OWNED, to, <<>>), id)
            s2 == [s1 EXCEPT !.OWNER_OF = Save(@, id, to),
                             !.OWNED = Save(@, to, owned),
                             !.OWNED_INDEX = Save(@, id, Len(owned) - 1)]
        IN  Ok(s2, << [kind |-> "GenerateNftMintEvent", sender |-> ContractAddr,
                       recipient |-> to, token_id |-> id] >>)

\* mutant of _burn: the owner entry of the burned id is not removed
_burn_keeps_owner(s, from) ==
    IF from = "" THEN Err("InvalidSender", s)
    ELSE
    LET owned == MayLoad(s.OWNED, from, <<>>)
    IN  IF Len(owned) = 0 THEN Panic(s)
        ELSE
        LET id == owned[Len(owned)]
            s1 == [s EXCEPT !.OWNED = Save(@, from, Pop(owned)),
                            !.OWNED_INDEX = Remove(@, id),
                            !.GET_APPROVED = Remove(@, id)]
            locked == MayLoad(s1.LOCKED, id, FALSE)
        IN  IF locked THEN Err("PreventBurn", s1)
            ELSE Ok(s1, << [kind |-> "GenerateNftBurnEvent", sender |-> from,
                            token_id |-> id] >>)

\* mutant of _burn: the first id of the owned vector is burned, not the last
_burn_first(s, from) ==
    IF from = "" THEN Err("InvalidSender", s)
    ELSE
    LET owned == MayLoad(s.OWNED, from, <<>>)
    IN  IF Len(owned) = 0 THEN Panic(s)
        ELSE
        LET id == owned[1]
            s1 == [s EXCEPT !.OWNED = Save(@, from, Tail(owned)),
                            !.OWNED_INDEX = Remove(@, id),
                            !.OWNER_OF = Remove(@, id),
                            !.GET_APPROVED = Remove(@, id)]
            locked == MayLoad(s1.LOCKED, id, FALSE)
        IN  IF locked THEN Err("PreventBurn", s1)
            ELSE Ok(s1, << [kind |-> "GenerateNftBurnEvent", sender |-> from,
                            token_id |-> id] >>)

\* mutant of _burn: the lock flag of the burned id is not looked at
_burn_ignores_lock(s, from) ==
    IF from = "" THEN Err("InvalidSender", s)
    ELSE
    LET owned == MayLoad(s.OWNED, from, <<>>)
    IN  IF Len(owned) = 0 THEN Panic(s)
        ELSE
        LET id == owned[Len(owned)]
            s1 == [s EXCEPT !.OWNED = Save(@, from, Pop(owned)),
                            !.OWNED_INDEX = Remove(@, id),
                            !.OWNER_OF = Remove(@, id),
                            !.GET_APPROVED = Remove(@, id)]
        IN  Ok(s1, << [kind |-> "GenerateNftBurnEvent", sender |-> from,
                       token_id |-> id] >>)

_burn(s, from) ==
    IF from = "" THEN Err("InvalidSender", s)
    ELSE
    LET owned == MayLoad(s.OWNED, from, <<>>)
    IN  IF Len(owned) = 0 THEN Panic(s)   \* owned[owned.len() - 1]
        ELSE
        LET id == owned[Len(owned)]
            s1 == [s EXCEPT !.OWNED = Save(@, from, Pop(owned)),
                            !.OWNED_INDEX = Remove(@, id),
                            !.OWNER_OF = Remove(@, id),
                            !.GET_APPROVED = Remove(@, id)]
            locked == MayLoad(s1.LOCKED, id, FALSE)
        IN  IF locked THEN Err("PreventBurn", s1)
            ELSE Ok(s1, << [kind |-> "GenerateNftBurnEvent", sender |-> from,
                            token_id |-> id] >>)

\* mutant of BurnLoop: the error of a burn is dropped and the loop goes on
RECURSIVE BurnLoop_drops_error(_, _, _, _)
BurnLoop_drops_error(s, from, n, msgs) ==
    IF n = 0 THEN Ok(s, msgs)
    ELSE LET r == _burn(s, from)
         IN  IF r.res = "Panic" THEN r
             ELSE BurnLoop_drops_error(r.st, from, n - 1, msgs \o r.msgs)

\* for _i in 0..tokens_to_burn { let msg = _burn(..)?; messages.push(msg) }
RECURSIVE BurnLoop(_, _, _, _)
BurnLoop(s, from, n, msgs) ==
    IF n = 0 THEN Ok(s, msgs)
    ELSE LET r == _burn(s, from)
         IN  IF r.res # "Ok" THEN r
             ELSE BurnLoop(r.st, from, n - 1, msgs \o r.msgs)

\* for _i in 0..tokens_to_mint { let msg = _mint(..)?; messages.push(msg) }
RECURSIVE MintLoop(_, _, _, _)
MintLoop(s, to, n, msgs) ==
    IF n = 0 THEN Ok(s, msgs)
    ELSE LET r == _mint(s, to)
         IN  IF r.res # "Ok" THEN r
             ELSE MintLoop(r.st, to, n - 1, msgs \o r.msgs)

\* ------------------------------------------------------------------------
\* _transfer: the fractional transfer with its burns and mints
\* ------------------------------------------------------------------------

\* BALANCES.update(from, |balance| balance.unwrap_or_default().checked_sub(amount))
debit(s, addr, amount) ==
    LET balance == MayLoad(s.BALANCES, addr, 0)
    IN  IF balance < amount THEN Err("Overflow", s)
        ELSE Ok([s EXCEPT !.BALANCES = Save(@, addr, balance - amount)], <<>>)

\* mutant of credit: the amount is saved in place of the sum
credit_overwrites(s, addr, amount) ==
    IF amount > Uint128MAX THEN Panic(s)
    ELSE Ok([s EXCEPT !.BALANCES = Save(@, addr, amount)], <<>>)

\* BALANCES.update(to, |balance| balance.unwrap_or_default() + amount)
credit(s, addr, amount) ==
    LET balance == MayLoad(s.BALANCES, addr, 0) + amount
    IN  IF balance > Uint128MAX THEN Panic(s)
        ELSE Ok([s EXCEPT !.BALANCES = Save(@, addr, balance)], <<>>)

\* mutant of tokens_to_burn: the whole units of the difference in place of
\* the difference of the whole units
tokens_to_burn_of_difference(before, after, unit) == (before - after) \div unit

\* (balance_before_sender / unit) - (balance after / unit)
tokens_to_burn(before, after, unit) == (before \div unit) - (after \div unit)

\* mutant of tokens_to_mint: the whole units of the difference in place of
\* the difference of the whole units
tokens_to_mint_of_difference(before, after, unit) == (after - before) \div unit

\* (balance after / unit) - (balance_before_receiver / unit)
tokens_to_mint(before, after, unit) == (after \div unit) - (before \div unit)

\* mutant of _transfer: the mints do not look at the recipient's flag
_transfer_mints_to_exempt(s, from, to, amount) ==
    IF ~addr_validate(from) \/ ~addr_validate(to) THEN Err("Std", s)
    ELSE
    LET unit == get_unit(s)
        balance_before_sender == MayLoad(s.BALANCES, from, 0)
        balance_before_receiver == MayLoad(s.BALANCES, to, 0)
        debited == debit(s, from, amount)
    IN  IF debited.res # "Ok" THEN debited
        ELSE
        LET credited == credit(debited.st, to, amount)
        IN  IF credited.res # "Ok" THEN credited
            ELSE
            LET s2 == credited.st
                whitelist_from == MayLoad(s2.WHITELIST, from, FALSE)
                burns == tokens_to_burn(balance_before_sender,
                                        MayLoad(s2.BALANCES, from, 0), unit)
                burnt == IF whitelist_from THEN Ok(s2, <<>>)
                         ELSE IF burns < 0 THEN Panic(s2)
                         ELSE BurnLoop(s2, from, burns, <<>>)
            IN  IF burnt.res # "Ok" THEN burnt
                ELSE
                LET mints == tokens_to_mint(balance_before_receiver,
                                            MayLoad(burnt.st.BALANCES, to, 0), unit)
                IN  IF mints < 0 THEN Panic(burnt.st)
                    ELSE MintLoop(burnt.st, to, mints, burnt.msgs)

_transfer(s, from, to, amount) ==
    IF ~addr_validate(from) \/ ~addr_validate(to) THEN Err("Std", s)
    ELSE
    LET unit == get_unit(s)
        balance_before_sender == MayLoad(s.BALANCES, from, 0)
        balance_before_receiver == MayLoad(s.BALANCES, to, 0)
        debited == debit(s, from, amount)
    IN  IF debited.res # "Ok" THEN debited
        ELSE
        LET credited == credit(debited.st, to, amount)
        IN  IF credited.res # "Ok" THEN credited
            ELSE
            LET s2 == credited.st
                whitelist_from == MayLoad(s2.WHITELIST, from, FALSE)
                whitelist_to == MayLoad(s2.WHITELIST, to, FALSE)
                burns == tokens_to_burn(balance_before_sender,
                                        MayLoad(s2.BALANCES, from, 0), unit)
                burnt == IF whitelist_from THEN Ok(s2, <<>>)
                         ELSE IF burns < 0 THEN Panic(s2)          \* Uint128 -
                         ELSE BurnLoop(s2, from, burns, <<>>)
            IN  IF burnt.res # "Ok" THEN burnt
                ELSE
                LET mints == tokens_to_mint(balance_before_receiver,
                                            MayLoad(burnt.st.BALANCES, to, 0), unit)
                IN  IF whitelist_to THEN burnt
                    ELSE IF mints < 0 THEN Panic(burnt.st)         \* Uint128 -
                    ELSE MintLoop(burnt.st, to, mints, burnt.msgs)

\* ------------------------------------------------------------------------
\* transfer_from: a token-id transfer when amount_or_id <= minted, else a
\* fractional transfer against the caller's allowance
\* ------------------------------------------------------------------------

\* mutant of move_owned: the index of the id that takes the vacated slot is
\* not saved
move_owned_stale_index(s, from, to, amount_or_id) ==
    LET vec_updated_id == MayLoad(s.OWNED, from, <<>>)
    IN  IF Len(vec_updated_id) = 0 THEN Panic(s)
        ELSE
        LET updated_id == vec_updated_id[Len(vec_updated_id)]
            owned_index == MayLoad(s.OWNED_INDEX, amount_or_id, 0)
        IN  IF owned_index >= Len(vec_updated_id) THEN Panic(s)
            ELSE
            LET swapped == [vec_updated_id EXCEPT ![owned_index + 1] = updated_id]
                s2 == [s EXCEPT !.OWNED = Save(@, from, Pop(swapped))]
                to_owned == Append(MayLoad(s2.OWNED, to, <<>>), amount_or_id)
            IN  Ok([s2 EXCEPT !.OWNED = Save(@, to, to_owned),
                              !.OWNED_INDEX = Save(@, amount_or_id, Len(to_owned) - 1)],
                   <<>>)

\* lines 272-296: the id leaves from's owned vector by swap-with-last and pop,
\* and is pushed on to's
move_owned(s, from, to, amount_or_id) ==
    LET vec_updated_id == MayLoad(s.OWNED, from, <<>>)
    IN  IF Len(vec_updated_id) = 0 THEN Panic(s)       \* len() - 1, get().unwrap()
        ELSE
        LET updated_id == vec_updated_id[Len(vec_updated_id)]
            owned_index == MayLoad(s.OWNED_INDEX, amount_or_id, 0)
            s1 == [s EXCEPT !.OWNED_INDEX = Save(@, updated_id, owned_index)]
        IN  IF owned_index >= Len(vec_updated_id) THEN Panic(s1)
            ELSE
            LET swapped == [vec_updated_id EXCEPT ![owned_index + 1] = updated_id]
                s2 == [s1 EXCEPT !.OWNED = Save(@, from, Pop(swapped))]
                to_owned == Append(MayLoad(s2.OWNED, to, <<>>), amount_or_id)
            IN  Ok([s2 EXCEPT !.OWNED = Save(@, to, to_owned),
                              !.OWNED_INDEX = Save(@, amount_or_id, Len(to_owned) - 1)],
                   <<>>)

\* mutant of transfer_token: the approval of the id is not removed
transfer_token_keeps_approval(s, from, to, amount_or_id, unit) ==
    LET debited == debit(s, from, unit)
    IN  IF debited.res # "Ok" THEN debited
        ELSE
        LET credited == credit(debited.st, to, unit)
        IN  IF credited.res # "Ok" THEN credited
            ELSE
            LET s2 == [credited.st EXCEPT !.OWNER_OF = Save(@, amount_or_id, to)]
                moved == move_owned(s2, from, to, amount_or_id)
            IN  IF moved.res # "Ok" THEN moved
                ELSE Ok(moved.st,
                        << [kind |-> "GenerateNftEvent", sender |-> from,
                            recipient |-> to, token_id |-> amount_or_id] >>)

\* mutant of transfer_token: the token moves without its unit of balance
transfer_token_keeps_balances(s, from, to, amount_or_id, unit) ==
    LET s2 == [s EXCEPT !.OWNER_OF = Save(@, amount_or_id, to),
                        !.GET_APPROVED = Remove(@, amount_or_id)]
        moved == move_owned(s2, from, to, amount_or_id)
    IN  IF moved.res # "Ok" THEN moved
        ELSE Ok(moved.st,
                << [kind |-> "GenerateNftEvent", sender |-> from,
                    recipient |-> to, token_id |-> amount_or_id] >>)

\* lines 256-310: the token-id transfer once it is authorized
transfer_token(s, from, to, amount_or_id, unit) ==
    LET debited == debit(s, from, unit)
    IN  IF debited.res # "Ok" THEN debited
        ELSE
        LET credited == credit(debited.st, to, unit)
        IN  IF credited.res # "Ok" THEN credited
            ELSE
            LET s2 == [credited.st EXCEPT !.OWNER_OF = Save(@, amount_or_id, to),
                                          !.GET_APPROVED = Remove(@, amount_or_id)]
                moved == move_owned(s2, from, to, amount_or_id)
            IN  IF moved.res # "Ok" THEN moved
                ELSE Ok(moved.st,
                        << [kind |-> "GenerateNftEvent", sender |-> from,
                            recipient |-> to, token_id |-> amount_or_id] >>)

\* mutant of is_token_id: the last minted id is read as an amount
is_token_id_strict(amount_or_id, minted) == amount_or_id < minted

\* line 231: the argument is read as a token id
is_token_id(amount_or_id, minted) == amount_or_id <= minted

\* mutant of spend_allowance: a sufficient allowance is not decremented
spend_allowance_not_saved(s, from, sender, amount_or_id) ==
    LET allowed == MayLoad(s.ALLOWANCE, <<from, sender>>, 0)
    IN  IF allowed = Uint128MAX THEN Ok(s, <<>>)
        ELSE IF allowed < amount_or_id THEN Err("Overflow", s)
        ELSE Ok(s, <<>>)

\* lines 312-323: the caller's allowance over from pays for the amount
spend_allowance(s, from, sender, amount_or_id) ==
    LET allowed == MayLoad(s.ALLOWANCE, <<from, sender>>, 0)
    IN  IF allowed = Uint128MAX THEN Ok(s, <<>>)
        ELSE IF allowed < amount_or_id THEN Err("Overflow", s)     \* checked_sub
        ELSE Ok([s EXCEPT !.ALLOWANCE =
                     Save(@, <<from, sender>>, allowed - amount_or_id)], <<>>)

\* mutant of transfer_from: the token path does not check the caller
transfer_from_any_caller(s, sender, from, to, amount_or_id) ==
    IF ~addr_validate(from) \/ ~addr_validate(to) THEN Err("Std", s)
    ELSE
    LET owner_of == MayLoad(s.OWNER_OF, amount_or_id, "")
        minted == s.MINTED
        unit == get_unit(s)
    IN  IF is_token_id(amount_or_id, minted)
        THEN IF from # owner_of THEN Err("InvalidSender", s)
             ELSE IF to = "" THEN Err("InvalidRecipient", s)
             ELSE IF MayLoad(s.WHITELIST, to, FALSE) THEN Err("InvalidRecipient", s)
             ELSE transfer_token(s, from, to, amount_or_id, unit)
        ELSE LET spent == spend_allowance(s, from, sender, amount_or_id)
             IN  IF spent.res # "Ok" THEN spent
                 ELSE LET r == _transfer(spent.st, from, to, amount_or_id)
                      IN  IF r.res # "Ok" THEN Panic(r.st)
                          ELSE r

transfer_from(s, sender, from, to, amount_or_id) ==
    IF ~addr_validate(from) \/ ~addr_validate(to) THEN Err("Std", s)
    ELSE
    LET owner_of == MayLoad(s.OWNER_OF, amount_or_id, "")
        minted == s.MINTED
        is_approved_for_all == MayLoad(s.APPROVED_FOR_ALL, <<from, sender>>, FALSE)
        get_approved == MayLoad(s.GET_APPROVED, amount_or_id, "")
        unit == get_unit(s)
    IN  IF is_token_id(amount_or_id, minted)
        THEN IF from # owner_of THEN Err("InvalidSender", s)
             ELSE IF to = "" THEN Err("InvalidRecipient", s)
             ELSE IF sender # from /\ ~is_approved_for_all /\ sender # get_approved
                  THEN Err("Unauthorized", s)
             ELSE IF MayLoad(s.WHITELIST, to, FALSE) THEN Err("InvalidRecipient", s)
             ELSE transfer_token(s, from, to, amount_or_id, unit)
        ELSE LET spent == spend_allowance(s, from, sender, amount_or_id)
             IN  IF spent.res # "Ok" THEN spent
                 ELSE LET r == _transfer(spent.st, from, to, amount_or_id)
                      IN  IF r.res # "Ok" THEN Panic(r.st)         \* .unwrap()
                          ELSE r

\* mutant of transfer: the amount goes through the dispatch of transfer_from
transfer_via_transfer_from(s, from, to, amount) ==
    transfer_from(s, from, from, to, amount)

\* lines 422-431: transfer hands the amount to _transfer
transfer(s, from, to, amount) == _transfer(s, from, to, amount)

\* ------------------------------------------------------------------------
\* send, send_nft
\* ------------------------------------------------------------------------

send(s, sender, from, contract, amount) ==
    LET r == _transfer(s, from, contract, amount)
    IN  IF r.res # "Ok" THEN Panic(r.st)                           \* .unwrap()
        ELSE Ok(r.st, Append(r.msgs, [kind |-> "Cw20ReceiveMsg", sender |-> sender,
                                      recipient |-> contract, amount |-> amount]))

send_nft(s, sender, from, contract, amount) ==
    LET r == transfer_from(s, sender, from, contract, amount)
    IN  IF r.res # "Ok" THEN Panic(r.st)                           \* .unwrap()
        ELSE Ok(r.st, Append(r.msgs, [kind |-> "Cw721ReceiveMsg", sender |-> sender,
                                      recipient |-> contract, token_id |-> amount]))

\* ------------------------------------------------------------------------
\* approve, approve_all, revoke_all
\* ------------------------------------------------------------------------

\* mutant of is_approvable_id: the last minted id is read as an amount
is_approvable_id_strict(amount_or_id, minted) ==
    amount_or_id < minted /\ amount_or_id > 0

\* line 348: the argument of approve is read as a token id
is_approvable_id(amount_or_id, minted) == amount_or_id <= minted /\ amount_or_id > 0

\* mutant of approve: a token approval is set without the check of the caller
approve_unchecked(s, sender, spender, amount_or_id) ==
    IF amount_or_id <= s.MINTED /\ amount_or_id > 0
    THEN Ok([s EXCEPT !.GET_APPROVED = Save(@, amount_or_id, spender)], <<>>)
    ELSE Ok([s EXCEPT !.ALLOWANCE = Save(@, <<sender, spender>>, amount_or_id)], <<>>)

approve(s, sender, spender, amount_or_id) ==
    LET minted == s.MINTED
    IN  IF is_approvable_id(amount_or_id, minted)
        THEN LET owner == MayLoad(s.OWNER_OF, amount_or_id, "")
                 is_approved_for_all ==
                     MayLoad(s.APPROVED_FOR_ALL, <<owner, sender>>, FALSE)
             IN  IF sender # owner /\ ~is_approved_for_all
                 THEN Err("Unauthorized", s)
                 ELSE Ok([s EXCEPT !.GET_APPROVED = Save(@, amount_or_id, spender)],
                         <<>>)
        ELSE Ok([s EXCEPT !.ALLOWANCE = Save(@, <<sender, spender>>, amount_or_id)],
                <<>>)

approve_all(s, sender, operator) ==
    IF ~addr_validate(operator) THEN Err("Std", s)
    ELSE Ok([s EXCEPT !.APPROVED_FOR_ALL = Save(@, <<sender, operator>>, TRUE)], <<>>)

\* mutant of revoke_all: the key is written as (operator, sender)
revoke_all_swapped_key(s, sender, operator) ==
    IF ~addr_validate(operator) THEN Err("Std", s)
    ELSE Ok([s EXCEPT !.APPROVED_FOR_ALL = Save(@, <<operator, sender>>, FALSE)], <<>>)

revoke_all(s, sender, operator) ==
    IF ~addr_validate(operator) THEN Err("Std", s)
    ELSE Ok([s EXCEPT !.APPROVED_FOR_ALL = Save(@, <<sender, operator>>, FALSE)], <<>>)

\* ------------------------------------------------------------------------
\* set_whitelist, set_lock
\* ------------------------------------------------------------------------

\* mutant of set_whitelist: the flag is set without burning the owned tokens
set_whitelist_no_burn(s, sender, target, state) ==
    IF sender # s.OWNER THEN Err("Unauthorized", s)
    ELSE Ok([s EXCEPT !.WHITELIST = Save(@, target, state)], <<>>)

\* mutant of set_whitelist: the caller is not compared with the owner
set_whitelist_any_caller(s, sender, target, state) ==
    LET owned_list == MayLoad(s.OWNED, target, <<>>)
        burnt == IF state THEN BurnLoop(s, target, Len(owned_list), <<>>)
                 ELSE Ok(s, <<>>)
    IN  IF burnt.res # "Ok" THEN burnt
        ELSE Ok([burnt.st EXCEPT !.WHITELIST = Save(@, target, state)], <<>>)

set_whitelist(s, sender, target, state) ==
    LET owner == s.OWNER
    IN  IF sender # owner THEN Err("Unauthorized", s)
        ELSE
        LET owned_list == MayLoad(s.OWNED, target, <<>>)
            burnt == IF state THEN BurnLoop(s, target, Len(owned_list), <<>>)
                     ELSE Ok(s, <<>>)
        IN  IF burnt.res # "Ok" THEN burnt
            ELSE Ok([burnt.st EXCEPT !.WHITELIST = Save(@, target, state)], <<>>)

\* mutant of set_lock: the approved spender of the id may lock it too
set_lock_by_spender(s, sender, target, state) ==
    LET owner_of == MayLoad(s.OWNER_OF, target, "")
        get_approved == MayLoad(s.GET_APPROVED, target, "")
    IN  IF sender # owner_of /\ sender # get_approved THEN Err("Unauthorized", s)
        ELSE Ok([s EXCEPT !.LOCKED = Save(@, target, state)], <<>>)

set_lock(s, sender, target, state) ==
    LET owner_of == MayLoad(s.OWNER_OF, target, "")
    IN  IF sender # owner_of THEN Err("Unauthorized", s)
        ELSE Ok([s EXCEPT !.LOCKED = Save(@, target, state)], <<>>)

\* ------------------------------------------------------------------------
\* generate_nft_event, generate_nft_mint_event, generate_nft_burn_event
\* ------------------------------------------------------------------------

\* mutant of generate_nft_event: the sender is not compared with the contract
generate_nft_event_any_sender(s, sender) == Ok(s, <<>>)

generate_nft_event(s, sender) ==
    IF sender # ContractAddr THEN Err("Unauthorized", s) ELSE Ok(s, <<>>)

generate_nft_mint_event(s, sender) ==
    IF sender # ContractAddr THEN Err("Unauthorized", s) ELSE Ok(s, <<>>)

generate_nft_burn_event(s, sender) ==
    IF sender # ContractAddr THEN Err("Unauthorized", s) ELSE Ok(s, <<>>)

\* ------------------------------------------------------------------------
\* The contract as a state machine
\* ------------------------------------------------------------------------

InitWith(msg) ==
    LET s == instantiate("c", msg)
    IN  /\ DECIMALS = s.DECIMALS
        /\ TOTAL_SUPPLY = s.TOTAL_SUPPLY
        /\ MINTED = s.MINTED
        /\ OWNER = s.OWNER
        /\ WHITELIST = s.WHITELIST
        /\ GET_APPROVED = s.GET_APPROVED
        /\ ALLOWANCE = s.ALLOWANCE
        /\ BALANCES = s.BALANCES
        /\ OWNER_OF = s.OWNER_OF
        /\ OWNED = s.OWNED
        /\ OWNED_INDEX = s.OWNED_INDEX
        /\ APPROVED_FOR_ALL = s.APPROVED_FOR_ALL
        /\ LOCKED = s.LOCKED
        /\ called = "Instantiate"
        /\ result = "Ok"
        /\ messages = <<>>
        /\ ops = 0

Init == InitWith(InstantiateMsg)

InitA == InitWith(InstantiateMsgA)

InitB == InitWith(InstantiateMsgB)

\* the writes of a handler reach the storage
Commit(s) ==
    /\ DECIMALS' = s.DECIMALS
    /\ TOTAL_SUPPLY' = s.TOTAL_SUPPLY
    /\ MINTED' = s.MINTED
    /\ OWNER' = s.OWNER
    /\ WHITELIST' = s.WHITELIST
    /\ GET_APPROVED' = s.GET_APPROVED
    /\ ALLOWANCE' = s.ALLOWANCE
    /\ BALANCES' = s.BALANCES
    /\ OWNER_OF' = s.OWNER_OF
    /\ OWNED' = s.OWNED
    /\ OWNED_INDEX' = s.OWNED_INDEX
    /\ APPROVED_FOR_ALL' = s.APPROVED_FOR_ALL
    /\ LOCKED' = s.LOCKED

\* what the host keeps of a call: the handler's writes when it returns Ok,
\* nothing when it returns an error or aborts
Kept(r) == IF r.res = "Ok" THEN r.st ELSE Storage

\* one call of execute: r is what the handler of msg returns on the current
\* storage
Execute(msg, r) ==
    /\ r.st.MINTED <= MaxMinted
    /\ ops' = ops + 1
    /\ called' = msg
    /\ result' = r.res
    /\ messages' = r.msgs
    /\ Commit(Kept(r))

Transfer(sender, recipient, amount) ==
    /\ ops < MaxOps
    /\ Execute("Transfer", transfer(Storage, sender, recipient, amount))

TransferFrom(sender, owner, recipient, amount) ==
    /\ ops < MaxOps
    /\ Execute("TransferFrom", transfer_from(Storage, sender, owner, recipient, amount))

TransferNft(sender, recipient, token_id) ==
    /\ ops < MaxOps
    /\ Execute("TransferNft", transfer_from(Storage, sender, sender, recipient, token_id))

Send(sender, contract, amount) ==
    /\ ops < MaxOps
    /\ Execute("Send", send(Storage, sender, sender, contract, amount))

SendNft(sender, contract, token_id) ==
    /\ ops < MaxOps
    /\ Execute("SendNft", send_nft(Storage, sender, sender, contract, token_id))

Approve(sender, spender, token_id) ==
    /\ ops < MaxOps
    /\ Execute("Approve", approve(Storage, sender, spender, token_id))

ApproveAll(sender, operator) ==
    /\ ops < MaxOps
    /\ Execute("ApproveAll", approve_all(Storage, sender, operator))

RevokeAll(sender, operator) ==
    /\ ops < MaxOps
    /\ Execute("RevokeAll", revoke_all(Storage, sender, operator))

SetLock(sender, token_id, state) ==
    /\ ops < MaxOps
    /\ Execute("SetLock", set_lock(Storage, sender, token_id, state))

SetWhitelist(sender, target, state) ==
    /\ ops < MaxOps
    /\ Execute("SetWhitelist", set_whitelist(Storage, sender, target, state))

GenerateNftEvent(sender) ==
    /\ ops < MaxOps
    /\ Execute("GenerateNftEvent", generate_nft_event(Storage, sender))

GenerateNftMintEvent(sender) ==
    /\ ops < MaxOps
    /\ Execute("GenerateNftMintEvent", generate_nft_mint_event(Storage, sender))

GenerateNftBurnEvent(sender) ==
    /\ ops < MaxOps
    /\ Execute("GenerateNftBurnEvent", generate_nft_burn_event(Storage, sender))

Next ==
    \/ \E sender \in Addr, recipient \in Addr, amount \in Amounts :
           Transfer(sender, recipient, amount)
    \/ \E sender \in Holders, owner \in Holders, recipient \in Addr, amount \in Amounts :
           TransferFrom(sender, owner, recipient, amount)
    \/ \E sender \in Wrappers, recipient \in Holders, token_id \in Amounts :
           TransferNft(sender, recipient, token_id)
    \/ \E sender \in Wrappers, contract \in Holders, amount \in Amounts :
           Send(sender, contract, amount)
    \/ \E sender \in Wrappers, contract \in Holders, token_id \in Amounts :
           SendNft(sender, contract, token_id)
    \/ \E sender \in Holders, spender \in Holders, token_id \in ApproveValues :
           Approve(sender, spender, token_id)
    \/ \E sender \in Wrappers, operator \in Operators : ApproveAll(sender, operator)
    \/ \E sender \in Wrappers, operator \in Operators : RevokeAll(sender, operator)
    \/ \E sender \in Holders, token_id \in LockIds, state \in BOOLEAN :
           SetLock(sender, token_id, state)
    \/ \E sender \in Admins, target \in Addr, state \in BOOLEAN :
           SetWhitelist(sender, target, state)
    \/ \E sender \in Senders : GenerateNftEvent(sender)
    \/ \E sender \in Senders : GenerateNftMintEvent(sender)
    \/ \E sender \in Senders : GenerateNftBurnEvent(sender)

Spec == Init /\ [][Next]_vars

\* Scenario A of the specification: supply 1000, decimals 0
SpecA == InitA /\ [][Next]_vars

\* a supply of two whole units
SpecB == InitB /\ [][Next]_vars

\* ------------------------------------------------------------------------
\* Views of a storage used by the properties
\* ------------------------------------------------------------------------

BalanceOf(s, x) == MayLoad(s.BALANCES, x, 0)

OwnedSet(s, x) == MayLoad(s.OWNED, x, <<>>)

OwnerOf(s, id) == MayLoad(s.OWNER_OF, id, "")

Exempt(s, x) == MayLoad(s.WHITELIST, x, FALSE)

IsLocked(s, id) == MayLoad(s.LOCKED, id, FALSE)

Allowance(s, owner, spender) == MayLoad(s.ALLOWANCE, <<owner, spender>>, 0)

\* floor(balance_of(x) / unit)
WholeUnits(s, x) == BalanceOf(s, x) \div get_unit(s)

\* the ids of a vector
Ids(v) == { v[i] : i \in 1..Len(v) }

\* every token id the storage or a call can mention
AllIds == 0..(MINTED + 1) \cup DOMAIN OWNER_OF \cup DOMAIN OWNED_INDEX
          \cup DOMAIN GET_APPROVED \cup UNION { Ids(OWNED[x]) : x \in DOMAIN OWNED }

RECURSIVE SumOver(_, _)
SumOver(m, keys) ==
    IF keys = {} THEN 0
    ELSE LET k == CHOOSE k \in keys : TRUE
         IN  m[k] + SumOver(m, keys \ {k})

\* ------------------------------------------------------------------------
\* C1: in every reachable state, after successful and after failed calls,
\* the balances of all identities sum to the stored total supply.
\* ------------------------------------------------------------------------
C1_SupplyConserved == SumOver(BALANCES, DOMAIN BALANCES) = TOTAL_SUPPLY

\* a failed call in a state where the supply is spread over three accounts
\* and tokens have been minted
C1_Witness ==
    /\ result # "Ok"
    /\ \A x \in Addr : BalanceOf(Storage, x) > 0
    /\ MINTED > 0

C3_IndexMatchesPosition ==
    \A x \in DOMAIN OWNED :
        \A i \in 1..Len(OWNED[x]) :
            /\ OWNED[x][i] \in DOMAIN OWNED_INDEX
            /\ OWNED_INDEX[OWNED[x][i]] = i - 1

\* after a token-id transfer of an id that was not the last of the sender's
\* vector: the former last id has moved to the vacated position 0
C3_Witness ==
    /\ called = "TransferFrom" /\ result = "Ok"
    /\ \E x, y \in Addr :
           /\ x # y
           /\ OwnedSet(Storage, x) = <<2>>
           /\ OwnedSet(Storage, y) = <<1>>

\* ------------------------------------------------------------------------
\* C4: the owner map and the owned vectors agree: id is in the vector of x
\* iff OWNER_OF[id] = x, no id is twice in a vector, and every owned id is
\* in 1..minted.
\* ------------------------------------------------------------------------
C4_OwnerMapMatchesOwned ==
    /\ \A x \in Addr \cup DOMAIN OWNED, id \in AllIds :
           (id \in Ids(OwnedSet(Storage, x))) <=> (OwnerOf(Storage, id) = x)
    /\ \A x \in DOMAIN OWNED :
           \A i, j \in 1..Len(OWNED[x]) : OWNED[x][i] = OWNED[x][j] => i = j
    /\ \A id \in DOMAIN OWNER_OF : id \in 1..MINTED /\ OWNER_OF[id] \in Addr

\* tokens owned by two identities, and a token that has been burned
C4_Witness ==
    /\ \E x, y \in Addr : x # y /\ OwnedSet(Storage, x) # <<>> /\ OwnedSet(Storage, y) # <<>>
    /\ \E id \in 1..MINTED : id \notin DOMAIN OWNER_OF

\* ------------------------------------------------------------------------
\* Scenario A: what the transfer of 1 unit from c to d must yield
\* ------------------------------------------------------------------------
ScenarioAHolds(r) ==
    /\ r.res = "Ok"
    /\ BalanceOf(Kept(r), "c") = 999
    /\ BalanceOf(Kept(r), "d") = 1
    /\ OwnedSet(Kept(r), "d") = <<1>>
    /\ Kept(r).OWNER_OF = Save(EmptyMap, 1, "d")
    /\ Kept(r).MINTED = 1

\* C5 as stated: right after instantiate with supply 1000 and decimals 0 by
\* c, no exemption set, Transfer of 1 unit from c to d succeeds and leaves c
\* 999, d 1, token 1 owned by d and the minted counter at 1.
C5_Original ==
    Storage = instantiate("c", InstantiateMsgA)
        => ScenarioAHolds(transfer(Storage, "c", "d", 1))

\* C5, the nearest run that does succeed: the same transfer once the
\* creator c has been exempted by SetWhitelist(c, true); d is not exempt.
C5_ScenarioAExemptCreator ==
    Storage = [instantiate("c", InstantiateMsgA)
                  EXCEPT !.WHITELIST = Save(EmptyMap, "c", TRUE)]
        => ScenarioAHolds(transfer(Storage, "c", "d", 1))

\* the state after SetWhitelist(c, true) and Transfer(c -> d, 1)
C5_Witness ==
    /\ called = "Transfer" /\ result = "Ok" /\ ops = 2
    /\ WHITELIST = Save(EmptyMap, "c", TRUE)
    /\ BalanceOf(Storage, "c") = 999 /\ BalanceOf(Storage, "d") = 1
    /\ OwnedSet(Storage, "d") = <<1>> /\ MINTED = 1

\* ------------------------------------------------------------------------
\* C6 as stated: when the last id of from's owned vector is locked, every
\* fractional transfer out of from that has to burn it (Transfer, Send, a
\* fractional TransferFrom with enough allowance) fails with the
\* locked-token error PreventBurn and changes nothing.
\* ------------------------------------------------------------------------
MustBurnLocked(from, to, amount) ==
    LET owned == OwnedSet(Storage, from)
    IN  /\ from # to
        /\ ~Exempt(Storage, from)
        /\ owned # <<>>
        /\ IsLocked(Storage, owned[Len(owned)])
        /\ amount <= BalanceOf(Storage, from)
        /\ WholeUnits(Storage, from)
               > (BalanceOf(Storage, from) - amount) \div get_unit(Storage)

FailsLocked(r) == r.res = "PreventBurn" /\ Kept(r) = Storage

C6_Original ==
    \A from \in Addr, to \in Addr, amount \in Amounts :
        MustBurnLocked(from, to, amount) =>
            /\ FailsLocked(transfer(Storage, from, to, amount))
            /\ FailsLocked(send(Storage, from, from, to, amount))
            /\ \A sender \in Addr :
                   (/\ amount > MINTED
                    /\ \/ Allowance(Storage, from, sender) = Uint128MAX
                       \/ Allowance(Storage, from, sender) >= amount)
                   => FailsLocked(transfer_from(Storage, sender, from, to, amount))

\* ------------------------------------------------------------------------
\* C7: when the contract owner enables the exemption of a target that owns
\* k >= 0 unlocked tokens, the call succeeds, the k tokens lose their owner,
\* index and approval entries, the target's owned vector is empty, its
\* flag is true, and every balance and the minted counter are unchanged.
\* ------------------------------------------------------------------------
C7_ExemptionBurnsOwned ==
    \A target \in Addr :
        LET before == Ids(OwnedSet(Storage, target))
            r      == set_whitelist(Storage, OWNER, target, TRUE)
            after  == Kept(r)
        IN  (\A id \in before : ~IsLocked(Storage, id)) =>
                /\ r.res = "Ok"
                /\ \A id \in before :
                       /\ id \notin DOMAIN after.OWNER_OF
                       /\ id \notin DOMAIN after.OWNED_INDEX
                       /\ id \notin DOMAIN after.GET_APPROVED
                /\ OwnedSet(after, target) = <<>>
                /\ after.OWNER_OF = [id \in (DOMAIN OWNER_OF) \ before |-> OWNER_OF[id]]
                /\ Exempt(after, target)
                /\ after.BALANCES = BALANCES
                /\ after.MINTED = MINTED

\* the state right after SetWhitelist(x, true) on a holder of two tokens:
\* x is exempt, still holds two whole units, and both tokens are gone
C7_Witness ==
    /\ called = "SetWhitelist" /\ result = "Ok" /\ ops = 3
    /\ MINTED = 2 /\ OWNER_OF = EmptyMap
    /\ \E x \in Holders :
           /\ Exempt(Storage, x)
           /\ WholeUnits(Storage, x) = 2
           /\ x \in DOMAIN OWNED /\ OWNED[x] = <<>>

\* ------------------------------------------------------------------------
\* C8: approve dispatches on v against the minted counter only: with
\* 0 < v <= minted no allowance changes and, when the caller is the owner of
\* id v or an operator of that owner, the approval of v becomes spender;
\* with v = 0 or v > minted the allowance (caller, spender) becomes v and no
\* token approval changes.
\* ------------------------------------------------------------------------
Authorized(sender, id) ==
    \/ sender = OwnerOf(Storage, id)
    \/ MayLoad(APPROVED_FOR_ALL, <<OwnerOf(Storage, id), sender>>, FALSE)

C8_ApproveDispatch ==
    \A sender \in Addr, spender \in Addr, v \in ApproveValues \cup AllIds :
        LET r     == approve(Storage, sender, spender, v)
            after == Kept(r)
        IN  IF 0 < v /\ v <= MINTED
            THEN /\ after.ALLOWANCE = ALLOWANCE
                 /\ Authorized(sender, v) =>
                        /\ r.res = "Ok"
                        /\ after.GET_APPROVED = Save(GET_APPROVED, v, spender)
            ELSE /\ r.res = "Ok"
                 /\ after.ALLOWANCE = Save(ALLOWANCE, <<sender, spender>>, v)
                 /\ after.GET_APPROVED = GET_APPROVED

\* after an Approve on each path: token 1 has an approved spender and an
\* allowance of 1000000 is recorded
C8_Witness ==
    /\ called = "Approve" /\ result = "Ok"
    /\ 1 \in DOMAIN GET_APPROVED
    /\ \E k \in DOMAIN ALLOWANCE : ALLOWANCE[k] = 1000000

\* ------------------------------------------------------------------------
\* C9 as stated: approve with a v that is not a live token id (v = 0,
\* v > minted, or v <= minted and burned) succeeds and sets the allowance
\* (caller, spender) to v; a token approval needs the owner or an operator.
\* ------------------------------------------------------------------------
C9_Original ==
    \A sender \in Addr, spender \in Addr, v \in ApproveValues \cup AllIds :
        LET r     == approve(Storage, sender, spender, v)
            after == Kept(r)
        IN  IF v = 0 \/ v > MINTED \/ v \notin DOMAIN OWNER_OF
            THEN /\ r.res = "Ok"
                 /\ after.ALLOWANCE = Save(ALLOWANCE, <<sender, spender>>, v)
            ELSE r.res = "Ok" => Authorized(sender, v)

\* C9 amended: approve with v = 0 or v > minted always succeeds and sets the
\* allowance (caller, spender) to v with no check of the caller; with
\* 0 < v <= minted it succeeds exactly when the caller is the owner of id v
\* or an operator of that owner, and otherwise -- in particular for every
\* burned id -- fails with Unauthorized and changes nothing.
C9_ApproveUnconditionalAboveMinted ==
    \A sender \in Addr, spender \in Addr, v \in ApproveValues \cup AllIds :
        LET r     == approve(Storage, sender, spender, v)
            after == Kept(r)
        IN  IF v = 0 \/ v > MINTED
            THEN /\ r.res = "Ok"
                 /\ after = [Storage EXCEPT
                                !.ALLOWANCE = Save(@, <<sender, spender>>, v)]
            ELSE /\ (r.res = "Ok") <=> Authorized(sender, v)
                 /\ ~Authorized(sender, v) =>
                        r.res = "Unauthorized" /\ after = Storage
                 /\ v \notin DOMAIN OWNER_OF => ~Authorized(sender, v)

\* an Approve of the burned id 1 (the only id minted) has failed
C9_Witness ==
    /\ called = "Approve" /\ result = "Unauthorized"
    /\ MINTED = 1 /\ OWNER_OF = EmptyMap

\* ------------------------------------------------------------------------
\* C10: TransferFrom with v <= minted is the transfer of token id v: when it
\* succeeds, from owned v, v is owned by to and no other token changes
\* owner, one unit of balance moves from from to to, and the minted counter
\* and every allowance are unchanged.  With v > minted it is the fractional
\* transfer: when it succeeds v units move and no token changes owner other
\* than by mint or burn.
\* ------------------------------------------------------------------------
Moved(before, after, from, to, n) ==
    \A x \in Addr \cup DOMAIN before.BALANCES \cup DOMAIN after.BALANCES :
        BalanceOf(after, x) = BalanceOf(before, x)
                              - (IF x = from THEN n ELSE 0)
                              + (IF x = to THEN n ELSE 0)

C10_TransferFromDispatch ==
    \A sender \in Addr, from \in Addr, to \in Addr, v \in Amounts \cup AllIds :
        LET r     == transfer_from(Storage, sender, from, to, v)
            after == Kept(r)
        IN  r.res = "Ok" =>
                IF v <= MINTED
                THEN /\ OwnerOf(Storage, v) = from
                     /\ after.OWNER_OF = Save(OWNER_OF, v, to)
                     /\ Moved(Storage, after, from, to, get_unit(Storage))
                     /\ after.MINTED = MINTED
                     /\ after.ALLOWANCE = ALLOWANCE
                ELSE /\ Moved(Storage, after, from, to, v)
                     /\ \A id \in (DOMAIN OWNER_OF) \cap (DOMAIN after.OWNER_OF) :
                            after.OWNER_OF[id] = OWNER_OF[id]

\* a TransferFrom has moved a token by its id
C10_Witness ==
    /\ called = "TransferFrom" /\ result = "Ok"
    /\ Len(messages) = 1 /\ messages[1].kind = "GenerateNftEvent"
    /\ OwnerOf(Storage, messages[1].token_id) = messages[1].recipient
    /\ messages[1].recipient # messages[1].sender

\* ------------------------------------------------------------------------
\* C11: a token-id transfer of id out of from succeeds only when from owns
\* id and the caller is from, an approve-all operator of from, or the
\* approved spender of id; for any other caller it fails with Unauthorized
\* and changes nothing.  No call of any entry point takes a token from one
\* owner to another in any other way.
\* ------------------------------------------------------------------------
MayMove(sender, from, id) ==
    \/ sender = from
    \/ MayLoad(APPROVED_FOR_ALL, <<from, sender>>, FALSE)
    \/ MayLoad(GET_APPROVED, id, "") = sender

\* in the current state, what every token-id call of transfer_from does
TokenMoveChecksCaller ==
    \A sender \in Addr, from \in Addr, to \in Addr, v \in AllIds :
        LET r     == transfer_from(Storage, sender, from, to, v)
            after == Kept(r)
        IN  v <= MINTED =>
                /\ r.res = "Ok" =>
                       OwnerOf(Storage, v) = from /\ MayMove(sender, from, v)
                /\ (OwnerOf(Storage, v) = from /\ ~MayMove(sender, from, v)) =>
                       r.res = "Unauthorized" /\ after = Storage

\* in a step, an id that goes from one owner to another was moved by a
\* successful token-id call, from its owner to the recipient of that call
OwnerChangesByTokenMove ==
    \A id \in (DOMAIN OWNER_OF) \cap (DOMAIN OWNER_OF') :
        OWNER_OF'[id] # OWNER_OF[id] =>
            /\ called' \in {"TransferFrom", "TransferNft", "SendNft"}
            /\ result' = "Ok"
            /\ id <= MINTED
            /\ messages'[1] = [kind |-> "GenerateNftEvent", sender |-> OWNER_OF[id],
                               recipient |-> OWNER_OF'[id], token_id |-> id]

C11_TokenMoveNeedsAuthorization ==
    [](TokenMoveChecksCaller) /\ [][OwnerChangesByTokenMove]_vars

\* a TransferFrom of a token by a caller with none of the three
\* authorizations has been refused
C11_Witness ==
    /\ called = "TransferFrom" /\ result = "Unauthorized"
    /\ OWNER_OF # EmptyMap

\* ------------------------------------------------------------------------
\* C12: in every reachable state an identity whose exemption flag is true
\* owns no token: its owned vector is empty and no id has it as owner.  A
\* token-id transfer to an exempt recipient that is otherwise in order
\* fails with InvalidRecipient and changes nothing.
\* ------------------------------------------------------------------------
C12_ExemptOwnsNothing ==
    /\ \A x \in Addr \cup DOMAIN WHITELIST \cup DOMAIN OWNED :
           Exempt(Storage, x) =>
               /\ OwnedSet(Storage, x) = <<>>
               /\ \A id \in DOMAIN OWNER_OF : OWNER_OF[id] # x
    /\ \A sender \in Addr, from \in Addr, to \in Addr, id \in DOMAIN OWNER_OF :
           (/\ OWNER_OF[id] = from
            /\ MayMove(sender, from, id)
            /\ Exempt(Storage, to)) =>
               LET r == transfer_from(Storage, sender, from, to, id)
               IN  r.res = "InvalidRecipient" /\ Kept(r) = Storage

\* a fractional transfer has credited whole units to an exempt identity
\* other than the creator while tokens exist, and minted it nothing
C12_Witness ==
    /\ called \in {"Transfer", "Send"} /\ result = "Ok"
    /\ OWNER_OF # EmptyMap
    /\ \E x \in Holders :
           /\ Exempt(Storage, x)
           /\ WholeUnits(Storage, x) > 0
           /\ OwnedSet(Storage, x) = <<>>

\* ------------------------------------------------------------------------
\* C13: after a successful token-id transfer of id the approval of id is
\* absent, and a caller that is neither the new owner nor an approve-all
\* operator of the new owner can no longer move id; a burned id has no
\* approval either.
\* ------------------------------------------------------------------------
C13_ApprovalClearedOnMove ==
    /\ DOMAIN GET_APPROVED \subseteq DOMAIN OWNER_OF
    /\ \A sender \in Addr, from \in Addr, to \in Addr, id \in DOMAIN OWNER_OF :
           LET r == transfer_from(Storage, sender, from, to, id)
           IN  r.res = "Ok" =>
                   /\ id \notin DOMAIN r.st.GET_APPROVED
                   /\ \A spender \in Addr \ {to}, next \in Addr :
                          ~MayLoad(r.st.APPROVED_FOR_ALL, <<to, spender>>, FALSE) =>
                              transfer_from(r.st, spender, to, next, id).res
                                  = "Unauthorized"

\* a token has just been moved by its id to another owner and has no
\* approval, and some other token has been burned
C13_Witness ==
    /\ called = "TransferFrom" /\ result = "Ok"
    /\ Len(messages) = 1
    /\ messages[1].kind = "GenerateNftEvent"
    /\ messages[1].sender # messages[1].recipient
    /\ OwnerOf(Storage, messages[1].token_id) = messages[1].recipient
    /\ messages[1].token_id \notin DOMAIN GET_APPROVED
    /\ MINTED > Cardinality(DOMAIN OWNER_OF)

\* ------------------------------------------------------------------------
\* C14: a fractional TransferFrom of a > minted by a caller over from, with
\* n the stored allowance (from, caller), 0 when absent and also when the
\* caller is from: when n is the unlimited sentinel no allowance changes;
\* else when n < a the call fails and nothing changes; else after success
\* the allowance (from, caller) is n - a and no other allowance changes.
\* ------------------------------------------------------------------------
C14_AllowanceSpent ==
    \A sender \in Addr, from \in Addr, to \in Addr, a \in Amounts :
        a > MINTED =>
            LET n     == Allowance(Storage, from, sender)
                r     == transfer_from(Storage, sender, from, to, a)
                after == Kept(r)
            IN  IF n = Uint128MAX THEN after.ALLOWANCE = ALLOWANCE
                ELSE IF n < a THEN r.res = "Overflow" /\ after = Storage
                ELSE r.res = "Ok" =>
                         after.ALLOWANCE = Save(ALLOWANCE, <<from, sender>>, n - a)

\* a fractional TransferFrom has succeeded against an allowance of 1000000
C14_Witness ==
    /\ called = "TransferFrom" /\ result = "Ok"
    /\ \E k \in DOMAIN ALLOWANCE, a \in Amounts \ {0} :
           ALLOWANCE[k] = 1000000 - a

\* ------------------------------------------------------------------------
\* C15: a token whose lock flag is true is never burned: in every step a
\* token that is locked and owned before the step is owned after it, and a
\* lock flag is true only for an id that has an owner.
\* ------------------------------------------------------------------------
LockedStaysOwned ==
    \A id \in DOMAIN OWNER_OF :
        IsLocked(Storage, id) => id \in DOMAIN OWNER_OF'

LockedIsOwned ==
    \A id \in DOMAIN LOCKED : LOCKED[id] => id \in DOMAIN OWNER_OF

C15_LockedNeverBurned == [](LockedIsOwned) /\ [][LockedStaysOwned]_vars

\* a call that had to burn a locked token has been refused, and the token
\* is still owned and locked
C15_Witness ==
    /\ result \in {"PreventBurn", "Panic"}
    /\ called \in {"Transfer", "Send", "TransferFrom", "SetWhitelist"}
    /\ \E x \in Addr :
           /\ OwnedSet(Storage, x) # <<>>
           /\ IsLocked(Storage, OwnedSet(Storage, x)[Len(OwnedSet(Storage, x))])

\* ------------------------------------------------------------------------
\* C16: no partial burn is visible.  When a fractional transfer out of a
\* non-exempt holder has to burn its last k >= 1 tokens and one of them is
\* locked, or the exemption of a holder of a locked token is enabled, the
\* call fails and the storage is exactly as before the call, the tokens
\* popped before the locked one and the locked one included.
\* ------------------------------------------------------------------------
BurnsNeeded(from, amount) ==
    WholeUnits(Storage, from) - (BalanceOf(Storage, from) - amount) \div get_unit(Storage)

\* the last k ids of from's owned vector hold a locked one
LockedAmongLast(from, k) ==
    LET owned == OwnedSet(Storage, from)
    IN  /\ k >= 1 /\ k <= Len(owned)
        /\ \E i \in (Len(owned) - k + 1)..Len(owned) : IsLocked(Storage, owned[i])

Refused(r) == r.res # "Ok" /\ Kept(r) = Storage

C16_NoPartialBurn ==
    /\ \A from \in Addr, to \in Addr, amount \in Amounts :
           (/\ from # to
            /\ ~Exempt(Storage, from)
            /\ amount <= BalanceOf(Storage, from)
            /\ LockedAmongLast(from, BurnsNeeded(from, amount))) =>
               /\ transfer(Storage, from, to, amount).res = "PreventBurn"
               /\ Refused(transfer(Storage, from, to, amount))
               /\ Refused(send(Storage, from, from, to, amount))
               /\ \A sender \in Addr :
                      amount > MINTED =>
                          Refused(transfer_from(Storage, sender, from, to, amount))
    /\ \A target \in Addr :
           LockedAmongLast(target, Len(OwnedSet(Storage, target))) =>
               LET r == set_whitelist(Storage, OWNER, target, TRUE)
               IN  r.res = "PreventBurn" /\ Kept(r) = Storage

\* a call that had to burn two tokens has been refused at the second: the
\* holder still owns both, the first of them locked, the last one not
C16_Witness ==
    /\ result = "PreventBurn"
    /\ called \in {"Transfer", "SetWhitelist"}
    /\ \E x \in Addr :
           LET owned == OwnedSet(Storage, x)
           IN  /\ Len(owned) >= 2
               /\ IsLocked(Storage, owned[1])
               /\ ~IsLocked(Storage, owned[Len(owned)])
               /\ \A i \in 1..Len(owned) : OwnerOf(Storage, owned[i]) = x

\* ------------------------------------------------------------------------
\* C17: SetWhitelist succeeds only for the caller recorded as owner at
\* instantiate; for any other caller it fails with Unauthorized and the
\* storage is unchanged.  The recorded owner never changes.
\* ------------------------------------------------------------------------
C17_OnlyOwnerSetsExemption ==
    /\ OWNER = "c"
    /\ \A sender \in Addr \cup {ContractAddr}, target \in Addr, state \in BOOLEAN :
           LET r == set_whitelist(Storage, sender, target, state)
           IN  /\ r.res = "Ok" => sender = "c"
               /\ sender # "c" => r.res = "Unauthorized" /\ Kept(r) = Storage

\* a SetWhitelist by a caller other than the owner has been refused while
\* tokens exist
C17_Witness ==
    /\ called = "SetWhitelist" /\ result = "Unauthorized"
    /\ OWNER_OF # EmptyMap

\* ------------------------------------------------------------------------
\* C18: SetLock succeeds only when the caller is the owner of the id; an
\* approve-all operator, an approved spender, any other caller, and any
\* caller of an id that is unminted or burned get Unauthorized; on success
\* the lock flag of the id is the only thing that changes.
\* ------------------------------------------------------------------------
C18_OnlyOwnerLocks ==
    \A sender \in Addr, id \in AllIds \cup LockIds, state \in BOOLEAN :
        LET r == set_lock(Storage, sender, id, state)
        IN  IF sender = OwnerOf(Storage, id)
            THEN /\ r.res = "Ok"
                 /\ r.st = [Storage EXCEPT !.LOCKED = Save(@, id, state)]
            ELSE r.res = "Unauthorized" /\ Kept(r) = Storage

\* a SetLock has been refused in a state where a token has an approved
\* spender other than its owner and nothing is locked
C18_Witness ==
    /\ called = "SetLock" /\ result = "Unauthorized"
    /\ LOCKED = EmptyMap
    /\ \E id \in DOMAIN GET_APPROVED : GET_APPROVED[id] # OwnerOf(Storage, id)

\* ------------------------------------------------------------------------
\* C19: the minted counter never decreases; a step raises it by the number
\* of its mints, and the ids that get an owner in the step are exactly the
\* ids above the old counter up to the new one; so every owned id lies in
\* 1..minted and an id that was burned never has an owner again.
\* ------------------------------------------------------------------------
MintsOf(msgs) ==
    Cardinality({ i \in 1..Len(msgs) : msgs[i].kind = "GenerateNftMintEvent" })

MintedAdvances ==
    /\ MINTED' >= MINTED
    /\ MINTED' - MINTED = MintsOf(messages')
    /\ (DOMAIN OWNER_OF') \ (DOMAIN OWNER_OF) = (MINTED + 1)..MINTED'

OwnedIdsAreMinted == DOMAIN OWNER_OF \subseteq 1..MINTED

C19_MintedMonotonic == [](OwnedIdsAreMinted) /\ [][MintedAdvances]_vars

\* id 2 has been burned and the mint after it got id 3
C19_Witness ==
    /\ MINTED = 3
    /\ 2 \notin DOMAIN OWNER_OF
    /\ 3 \in DOMAIN OWNER_OF

\* ------------------------------------------------------------------------
\* C20 as stated: every failing call reports an error value; no call ends
\* in an abort.
\* ------------------------------------------------------------------------
C20_Original == result # "Panic"

\* ------------------------------------------------------------------------
\* C21: a mint to x followed at once by a burn from x succeeds and gives
\* back x's owned sequence, the owner map, the index map and the approval
\* map as they were before the mint; the minted counter is one higher and
\* nothing else differs.
\* ------------------------------------------------------------------------
C21_MintThenBurnRestores ==
    \A x \in Addr :
        LET m == _mint(Storage, x)
            b == _burn(m.st, x)
        IN  /\ m.res = "Ok" /\ b.res = "Ok"
            /\ OwnedSet(m.st, x) = Append(OwnedSet(Storage, x), MINTED + 1)
            /\ OwnerOf(m.st, MINTED + 1) = x
            /\ \A y \in Addr \cup DOMAIN OWNED :
                   OwnedSet(b.st, y) = OwnedSet(Storage, y)
            /\ b.st.OWNER_OF = OWNER_OF
            /\ b.st.OWNED_INDEX = OWNED_INDEX
            /\ b.st.GET_APPROVED = GET_APPROVED
            /\ b.st.MINTED = MINTED + 1
            /\ b.st.BALANCES = BALANCES
            /\ b.st.LOCKED = LOCKED
            /\ b.st.ALLOWANCE = ALLOWANCE

\* a state with an owned token that has an approval and an id that was
\* burned, from which the mint and the burn both succeed
C21_Witness ==
    /\ GET_APPROVED # EmptyMap
    /\ MINTED > Cardinality(DOMAIN OWNER_OF)
    /\ \E x \in Addr :
           /\ OwnedSet(Storage, x) # <<>>
           /\ _burn(_mint(Storage, x).st, x).res = "Ok"

\* ------------------------------------------------------------------------
\* C22: a successful fractional transfer of a between two distinct
\* identities that are not exempt burns floor(bf/unit) - floor((bf-a)/unit)
\* tokens of the sender and mints floor((bt+a)/unit) - floor(bt/unit) tokens
\* to the recipient, bf and bt the balances before; for a = unit that is one
\* burn and one mint.
\* ------------------------------------------------------------------------
KindCount(msgs, kind) ==
    Cardinality({ i \in 1..Len(msgs) : msgs[i].kind = kind })

BurnsAndMintsAsComputed(r, from, to, a) ==
    LET unit  == get_unit(Storage)
        bf    == BalanceOf(Storage, from)
        bt    == BalanceOf(Storage, to)
        burns == (bf \div unit) - ((bf - a) \div unit)
        mints == ((bt + a) \div unit) - (bt \div unit)
    IN  r.res = "Ok" =>
            /\ KindCount(r.msgs, "GenerateNftBurnEvent") = burns
            /\ KindCount(r.msgs, "GenerateNftMintEvent") = mints
            /\ Len(OwnedSet(r.st, from)) = Len(OwnedSet(Storage, from)) - burns
            /\ Len(OwnedSet(r.st, to)) = Len(OwnedSet(Storage, to)) + mints
            /\ Cardinality(DOMAIN r.st.OWNER_OF)
                   = Cardinality(DOMAIN OWNER_OF) - burns + mints
            /\ r.st.MINTED = MINTED + mints
            /\ a = unit => burns = 1 /\ mints = 1

C22_BurnsAndMintsCounted ==
    \A from \in Addr, to \in Addr, a \in Amounts :
        (from # to /\ ~Exempt(Storage, from) /\ ~Exempt(Storage, to)) =>
            /\ BurnsAndMintsAsComputed(transfer(Storage, from, to, a), from, to, a)
            /\ BurnsAndMintsAsComputed(send(Storage, from, from, to, a), from, to, a)

\* a transfer between two holders that are not exempt has burned a token
\* and minted one
C22_Witness ==
    /\ called = "Transfer" /\ result = "Ok"
    /\ KindCount(messages, "GenerateNftBurnEvent") = 1
    /\ KindCount(messages, "GenerateNftMintEvent") = 1

\* ------------------------------------------------------------------------
\* C23: burning is last-in-first-out: a successful fractional transfer that
\* burns k tokens of a sender removes the last k ids of the sender's owned
\* sequence as it stands, leaves the prefix before them as it is, and the k
\* ids have no owner afterwards.
\* ------------------------------------------------------------------------
LastBurned(r, from, a) ==
    LET owned == OwnedSet(Storage, from)
        k     == BurnsNeeded(from, a)
    IN  r.res = "Ok" =>
            /\ k >= 0 /\ k <= Len(owned)
            /\ OwnedSet(r.st, from) = SubSeq(owned, 1, Len(owned) - k)
            /\ \A i \in (Len(owned) - k + 1)..Len(owned) :
                   /\ owned[i] \notin DOMAIN r.st.OWNER_OF
                   /\ owned[i] \notin DOMAIN r.st.OWNED_INDEX

C23_BurnIsLastInFirstOut ==
    \A from \in Addr, to \in Addr, a \in Amounts :
        (/\ from # to
         /\ ~Exempt(Storage, from)
         /\ a <= BalanceOf(Storage, from)
         /\ OwnedSet(Storage, from) # <<>>) =>
            /\ LastBurned(transfer(Storage, from, to, a), from, a)
            /\ LastBurned(send(Storage, from, from, to, a), from, a)

\* a holder whose owned sequence is out of id order after a token-id
\* transfer can make a transfer that burns its last id
C23_Witness ==
    \E x \in Addr, y \in Addr :
        LET owned == OwnedSet(Storage, x)
        IN  /\ Len(owned) >= 2
            /\ owned[1] > owned[Len(owned)]
            /\ transfer(Storage, x, y, get_unit(Storage)).res = "Ok"
            /\ OwnedSet(transfer(Storage, x, y, get_unit(Storage)).st, x)
                   = SubSeq(owned, 1, Len(owned) - 1)

\* ------------------------------------------------------------------------
\* C24 as stated: in every successful call each mint, each burn and each
\* token-id transfer has exactly one event message with the id and the
\* actor, the burns of SetWhitelist(target, true) included, and the burn
\* messages of a call precede its mint messages.
\* ------------------------------------------------------------------------
EventsFor(msgs, e) == { i \in 1..Len(msgs) : msgs[i] = e }

EventPerChange ==
    /\ \A id \in (DOMAIN OWNER_OF) \ (DOMAIN OWNER_OF') :
           Cardinality(EventsFor(messages',
               [kind |-> "GenerateNftBurnEvent", sender |-> OWNER_OF[id],
                token_id |-> id])) = 1
    /\ \A id \in (DOMAIN OWNER_OF') \ (DOMAIN OWNER_OF) :
           Cardinality(EventsFor(messages',
               [kind |-> "GenerateNftMintEvent", sender |-> ContractAddr,
                recipient |-> OWNER_OF'[id], token_id |-> id])) = 1
    /\ \A id \in (DOMAIN OWNER_OF) \cap (DOMAIN OWNER_OF') :
           OWNER_OF'[id] # OWNER_OF[id] =>
               Cardinality(EventsFor(messages',
                   [kind |-> "GenerateNftEvent", sender |-> OWNER_OF[id],
                    recipient |-> OWNER_OF'[id], token_id |-> id])) = 1
    /\ \A i \in 1..Len(messages'), j \in 1..Len(messages') :
           (/\ messages'[i].kind = "GenerateNftBurnEvent"
            /\ messages'[j].kind = "GenerateNftMintEvent") => i < j

C24_Original == [][EventPerChange]_vars

\* C24, what does hold: the same for every call other than SetWhitelist
C24_EventPerChangeOfTransfers ==
    [][called' # "SetWhitelist" => EventPerChange]_vars

\* ------------------------------------------------------------------------
\* C25: the handlers of GenerateNftEvent, GenerateNftMintEvent and
\* GenerateNftBurnEvent write nothing and send nothing, in whatever state
\* they run; they succeed for the contract itself as sender and fail with
\* Unauthorized for any other sender.
\* ------------------------------------------------------------------------
Notifies(r, sender) ==
    /\ r.res = (IF sender = ContractAddr THEN "Ok" ELSE "Unauthorized")
    /\ r.st = Storage
    /\ r.msgs = <<>>

EventHandlersNotify ==
    \A sender \in Addr \cup {ContractAddr} :
        /\ Notifies(generate_nft_event(Storage, sender), sender)
        /\ Notifies(generate_nft_mint_event(Storage, sender), sender)
        /\ Notifies(generate_nft_burn_event(Storage, sender), sender)

EventStepChangesNothing ==
    called' \in {"GenerateNftEvent", "GenerateNftMintEvent", "GenerateNftBurnEvent"}
        => UNCHANGED store /\ messages' = <<>>

C25_EventsArePureNotifications ==
    [](EventHandlersNotify) /\ [][EventStepChangesNothing]_vars

\* an event message sent by the contract has been handled while tokens
\* exist and an approval is set
C25_Witness ==
    /\ called \in {"GenerateNftEvent", "GenerateNftMintEvent", "GenerateNftBurnEvent"}
    /\ result = "Ok"
    /\ OWNER_OF # EmptyMap
    /\ GET_APPROVED # EmptyMap

\* ------------------------------------------------------------------------
\* C26: ApproveAll sets and RevokeAll clears the grant (caller, operator)
\* and nothing else, for every operator that is a valid address; after the
\* RevokeAll a token-id transfer of a token of the caller by the operator
\* fails with Unauthorized unless the operator is the approved spender of
\* that token, and after the ApproveAll it does not.
\* ------------------------------------------------------------------------
C26_OperatorGrant ==
    \A sender \in Addr, operator \in Addr \cup Operators :
        LET ap == approve_all(Storage, sender, operator)
            rv == revoke_all(Storage, sender, operator)
        IN  IF operator \in Addr
            THEN /\ ap.res = "Ok" /\ rv.res = "Ok"
                 /\ ap.st = [Storage EXCEPT
                                !.APPROVED_FOR_ALL = Save(@, <<sender, operator>>, TRUE)]
                 /\ rv.st = [Storage EXCEPT
                                !.APPROVED_FOR_ALL = Save(@, <<sender, operator>>, FALSE)]
                 /\ \A id \in DOMAIN OWNER_OF, to \in Addr :
                        (/\ OWNER_OF[id] = sender
                         /\ operator # sender
                         /\ MayLoad(GET_APPROVED, id, "") # operator) =>
                            /\ transfer_from(rv.st, operator, sender, to, id).res
                                   = "Unauthorized"
                            /\ transfer_from(ap.st, operator, sender, to, id).res
                                   # "Unauthorized"
            ELSE /\ ap.res = "Std" /\ ap.st = Storage
                 /\ rv.res = "Std" /\ rv.st = Storage

\* a RevokeAll has succeeded: the grant of a token holder to an operator is
\* recorded as false
C26_Witness ==
    /\ called = "RevokeAll" /\ result = "Ok"
    /\ \E k \in DOMAIN APPROVED_FOR_ALL :
           /\ ~APPROVED_FOR_ALL[k]
           /\ OwnedSet(Storage, k[1]) # <<>>

\* ------------------------------------------------------------------------
\* C27: in every reachable state every identity, exempt or not, owns at
\* most floor(balance / unit) tokens, counted by its owned sequence and by
\* the owner map.
\* ------------------------------------------------------------------------
C27_TokensBackedByBalance ==
    \A x \in Addr \cup DOMAIN OWNED \cup DOMAIN BALANCES :
        /\ Len(OwnedSet(Storage, x)) <= WholeUnits(Storage, x)
        /\ Cardinality({ id \in DOMAIN OWNER_OF : OWNER_OF[id] = x })
               <= WholeUnits(Storage, x)

\* an exempt identity holds whole units and no token, an identity that is
\* not exempt owns as many tokens as it has whole units, and one token has
\* been moved by its id
C27_Witness ==
    /\ called \in {"TransferFrom", "TransferNft", "SendNft"} /\ result = "Ok"
    /\ Len(messages) >= 1 /\ messages[1].kind = "GenerateNftEvent"
    /\ \E x \in Addr, y \in Addr :
           /\ Exempt(Storage, x) /\ WholeUnits(Storage, x) > 0
           /\ OwnedSet(Storage, x) = <<>>
           /\ ~Exempt(Storage, y)
           /\ Len(OwnedSet(Storage, y)) = WholeUnits(Storage, y)
           /\ WholeUnits(Storage, y) > 0

\* ------------------------------------------------------------------------
\* C28: in every reachable state the number of ids that have an owner is at
\* most floor(total_supply / unit).
\* ------------------------------------------------------------------------
C28_LiveTokensWithinSupply ==
    Cardinality(DOMAIN OWNER_OF) <= TOTAL_SUPPLY \div get_unit(Storage)

\* with a supply of two units: three ids have been minted, two of them have
\* an owner, and an exemption flag has been switched off
C28_Witness ==
    /\ TOTAL_SUPPLY \div get_unit(Storage) = 2
    /\ MINTED = 3
    /\ Cardinality(DOMAIN OWNER_OF) = 2
    /\ \E x \in DOMAIN WHITELIST : ~WHITELIST[x]

\* ------------------------------------------------------------------------
\* C29: a TransferNft or SendNft call with argument token_id either fails
\* with no state change or moves exactly the token token_id and one unit of
\* balance from the caller to the recipient, never token_id fractional
\* units.
\* ------------------------------------------------------------------------
TokenMoved(r, sender, to, v) ==
    r.res = "Ok" =>
        /\ OwnerOf(Storage, v) = sender
        /\ r.st.OWNER_OF = Save(OWNER_OF, v, to)
        /\ Moved(Storage, r.st, sender, to, get_unit(Storage))
        /\ r.st.ALLOWANCE = ALLOWANCE

C29_Original ==
    \A sender \in Addr, to \in Addr, v \in Amounts \cup AllIds :
        /\ TokenMoved(transfer_from(Storage, sender, sender, to, v), sender, to, v)
        /\ TokenMoved(send_nft(Storage, sender, sender, to, v), sender, to, v)

\* ------------------------------------------------------------------------
\* C30: Transfer and Send never take the token-id interpretation: a call
\* that succeeds moves exactly `amount` units from the caller, changes no
\* allowance and gives no token that stays alive a new owner, also when the
\* amount is the id of a token the caller owns; Send succeeds exactly when
\* Transfer does, with the same storage; and a Transfer of an amount that is
\* at most the minted counter comes out the same when every allowance is
\* removed.
\* ------------------------------------------------------------------------
AmountMoved(r, from, to, amount) ==
    r.res = "Ok" =>
        /\ Moved(Storage, r.st, from, to, amount)
        /\ r.st.ALLOWANCE = ALLOWANCE
        /\ \A id \in (DOMAIN OWNER_OF) \cap (DOMAIN r.st.OWNER_OF) :
               r.st.OWNER_OF[id] = OWNER_OF[id]

WithoutAllowances(s) == [s EXCEPT !.ALLOWANCE = EmptyMap]

NeedsNoAllowance(r, from, to, amount) ==
    (amount <= MINTED /\ \E k \in DOMAIN ALLOWANCE : k[1] = from) =>
        \A b \in {transfer(WithoutAllowances(Storage), from, to, amount)} :
            /\ b.res = r.res
            /\ r.res = "Ok" => b.st = WithoutAllowances(r.st)

\* Send moves what Transfer moves, and aborts where Transfer fails
SendAsTransfer(r, from, contract, amount) ==
    \A q \in {send(Storage, from, from, contract, amount)} :
        /\ AmountMoved(q, from, contract, amount)
        /\ q.res = (IF r.res = "Ok" THEN "Ok" ELSE "Panic")
        /\ r.res = "Ok" => q.st = r.st

C30_TransferIsFractional ==
    \A from \in Addr, to \in Addr, amount \in Amounts \cup AllIds :
        \A r \in {transfer(Storage, from, to, amount)} :
            /\ AmountMoved(r, from, to, amount)
            /\ NeedsNoAllowance(r, from, to, amount)
            /\ to \in Wrappers => SendAsTransfer(r, from, to, amount)

\* a Transfer has succeeded, and a holder that is not exempt can transfer
\* the amount 1 while it owns the token with id 1
C30_Witness ==
    /\ called = "Transfer" /\ result = "Ok"
    /\ \E from \in Addr, to \in Addr :
           /\ from # to
           /\ ~Exempt(Storage, from)
           /\ OwnerOf(Storage, 1) = from
           /\ 1 <= MINTED
           /\ transfer(Storage, from, to, 1).res = "Ok"

====
